---- MODULE Spec2Model ----
(***************************************************************************)
(* Model of pkg/agent/auth/keycloakauthn.v2.go: the Keycloak bearer-token  *)
(* authenticator (getJWKeyFunc, NewKeycloakAuthenticator, getToken,        *)
(* TranslateToTornjakRoles, AuthenticateRequest).                          *)
(*                                                                         *)
(* Strings are sequences of atoms.  An Authorization header is a sequence  *)
(* over HdrAtoms, where SP is one whitespace character and every other     *)
(* atom is a run of non-whitespace characters; adjacent non-whitespace     *)
(* atoms form one longer word, as strings.Fields sees them.                *)
(*                                                                         *)
(* Time is counted in minutes.                                             *)
(***************************************************************************)
EXTENDS Integers, Sequences, FiniteSets, TLC

VARIABLES
  StaticRoleMappings,  \* the package-level role table (a mutable Go map)
  inHdr,               \* the Authorization header under test in this run
  inTok,               \* the token under test in this run
  auth,                \* the *KeycloakAuthenticator, once constructed
  keys,                \* a.jwks: the cached SigningKeySet (key IDs)
  srcKeys,             \* the key IDs the Key Source serves right now
  sinceAttempt,        \* minutes since the last refresh attempt (capped)
  sinceSched,          \* minutes since the scheduled-refresh timer was armed
  pc,                  \* per caller: "idle" or "fetching" (blocked in a refresh)
  req,                 \* per caller: the request in flight
  last,                \* what the last completed AuthenticateRequest returned
  gap,                 \* sinceAttempt when the latest refresh attempt started
  burstMisses,         \* lookup misses in the current minute (capped)
  burstFetches,        \* Key Source fetches started in the current minute (capped)
  lastRefresh          \* the latest completed refresh: outcome, keys before, reported

vars == <<StaticRoleMappings, inHdr, inTok, auth, keys, srcKeys, sinceAttempt,
          sinceSched, pc, req, last, gap, burstMisses, burstFetches,
          lastRefresh>>

\* ------------------------------------------------------------- bounds
MaxHdrLen == 5
MaxRoles == 3
NProcs == 2

\* ------------------------------------------------- program constants
RefreshInterval == 60
RefreshRateLimit == 5

\* ------------------------------------------------------------- strings
SP == " "
HdrAtoms == {SP, "Bearer", "Basic", "tok"}

RECURSIVE SeqsUpTo(_, _)
SeqsUpTo(S, n) ==
  IF n = 0 THEN {<<>>}
  ELSE LET shorter == SeqsUpTo(S, n - 1)
       IN shorter \cup {Append(s, a) : s \in {t \in shorter : Len(t) = n - 1}, a \in S}

\* strings.Fields: the maximal runs of non-whitespace, in order.
RECURSIVE FieldsFrom(_, _, _)
FieldsFrom(h, i, cur) ==
  IF i > Len(h)
  THEN (IF cur = <<>> THEN <<>> ELSE <<cur>>)
  ELSE IF h[i] = SP
       THEN (IF cur = <<>> THEN <<>> ELSE <<cur>>) \o FieldsFrom(h, i + 1, <<>>)
       ELSE FieldsFrom(h, i + 1, Append(cur, h[i]))

Fields(h) == FieldsFrom(h, 1, <<>>)

\* ------------------------------------------------------------- errors
Nil == [kind |-> "nil"]

\* errors.Errorf: a fresh error value that carries only the formatted text.
Errorf(fmt, arg) == [kind |-> "errorf", fmt |-> fmt, arg |-> arg]

\* err.Error() of an error value: its text.
ErrorText(e) == IF e.kind = "errorf" THEN <<e.fmt, e.arg>> ELSE <<e.kind>>

\* ----------------------------------------------------------- getToken
\* getToken without the check of the scheme word.
getTokenAnyScheme(auth_header, redirectURL) ==
  IF auth_header = <<>>
  THEN [token |-> <<>>,
        err |-> Errorf("Authorization header missing. Please obtain access token here: %s",
                       redirectURL)]
  ELSE LET auth_fields == Fields(auth_header)
       IN IF Len(auth_fields) # 2
          THEN [token |-> <<>>,
                err |-> Errorf("Expected bearer token, got %s", auth_header)]
          ELSE [token |-> auth_fields[2], err |-> Nil]

getToken(auth_header, redirectURL) ==
  IF auth_header = <<>>
  THEN [token |-> <<>>,
        err |-> Errorf("Authorization header missing. Please obtain access token here: %s",
                       redirectURL)]
  ELSE LET auth_fields == Fields(auth_header)
       IN IF Len(auth_fields) # 2 \/ auth_fields[1] # <<"Bearer">>
          THEN [token |-> <<>>,
                err |-> Errorf("Expected bearer token, got %s", auth_header)]
          ELSE [token |-> auth_fields[2], err |-> Nil]

\* ------------------------------------------------------ role translation
ProviderRoles == {"tornjak-viewer-realm-role", "tornjak-admin-realm-role", "unknown-role"}

\* The initial contents of the package-level map StaticRoleMappings.
StaticRoleMappingsTable ==
  [r \in {"tornjak-viewer-realm-role", "tornjak-admin-realm-role"} |->
     IF r = "tornjak-viewer-realm-role" THEN "viewer" ELSE "admin"]

\* A translator that keeps each internal role once.
RECURSIVE TranslateDedupFrom(_, _, _)
TranslateDedupFrom(roles, i, translatedRoles) ==
  IF i > Len(roles) THEN translatedRoles
  ELSE LET role == roles[i]
           ok == role \in DOMAIN StaticRoleMappings
           seen == ok /\ \E j \in 1..Len(translatedRoles) :
                            translatedRoles[j] = StaticRoleMappings[role]
       IN TranslateDedupFrom(roles, i + 1,
            IF ok /\ ~seen THEN Append(translatedRoles, StaticRoleMappings[role])
            ELSE translatedRoles)

TranslateDedup(roles) == TranslateDedupFrom(roles, 1, <<>>)

RECURSIVE TranslateFrom(_, _, _)
TranslateFrom(roles, i, translatedRoles) ==
  IF i > Len(roles) THEN translatedRoles
  ELSE LET role == roles[i]
           ok == role \in DOMAIN StaticRoleMappings
       IN TranslateFrom(roles, i + 1,
            IF ok THEN Append(translatedRoles, StaticRoleMappings[role])
            ELSE translatedRoles)

TranslateToTornjakRoles(roles) == TranslateFrom(roles, 1, <<>>)

\* ------------------------------------------------------------ key IDs
\* kid1 is served from the start, kid2 appears when the provider rotates
\* its keys, kid3 is never served by the Key Source.
KIDs == {"kid1", "kid2", "kid3"}
InitialSourceKeys == {"kid1"}
RotatedSourceKeys == {"kid1", "kid2"}

\* ------------------------------------------ the strings handed to keyfunc
JWKSURL == [form |-> "url", kids |-> {}]
JSONDoc(kids_) == [form |-> "json", kids |-> kids_]
\* The static JSON key set the operator means to configure in static mode.
StaticJSONKeySet == JSONDoc({"kid1"})

NoOptions == [refreshInterval |-> 0, refreshRateLimit |-> 0, refreshUnknownKID |-> FALSE]
NoJWKS == [keys |-> {}, opts |-> NoOptions]

\* keyfunc.Get(jwksURL, opts): one HTTP GET of the URL, answered by resp.
keyfuncGet(jwksInfo, opts, resp) ==
  IF jwksInfo.form = "url" /\ resp.ok
  THEN [jwks |-> [keys |-> resp.kids, opts |-> opts], err |-> Nil]
  ELSE [jwks |-> NoJWKS, err |-> [kind |-> "keyfunc: fetch failed"]]

\* keyfunc.NewJSON(bytes): parses the bytes as a JWKS document.
keyfuncNewJSON(jwksInfo) ==
  IF jwksInfo.form = "json"
  THEN [jwks |-> [keys |-> jwksInfo.kids, opts |-> NoOptions], err |-> Nil]
  ELSE [jwks |-> NoJWKS, err |-> [kind |-> "keyfunc: invalid JSON"]]

\* getJWKeyFunc with the RefreshRateLimit option left out.
getJWKeyFuncNoRateLimit(httpjwks, jwksInfo, resp) ==
  LET opts == [refreshInterval |-> RefreshInterval,
               refreshRateLimit |-> 0,
               refreshUnknownKID |-> TRUE]
      got == IF httpjwks THEN keyfuncGet(jwksInfo, opts, resp)
             ELSE keyfuncNewJSON(jwksInfo)
  IN IF got.err # Nil
     THEN [jwks |-> NoJWKS, err |-> Errorf("Could not create Keyfunc: %v", ErrorText(got.err))]
     ELSE [jwks |-> got.jwks, err |-> Nil]

getJWKeyFunc(httpjwks, jwksInfo, resp) ==
  IF httpjwks
  THEN LET opts == [refreshInterval |-> RefreshInterval,
                    refreshRateLimit |-> RefreshRateLimit,
                    refreshUnknownKID |-> TRUE]
           got == keyfuncGet(jwksInfo, opts, resp)
       IN IF got.err # Nil
          THEN [jwks |-> NoJWKS,
                err |-> Errorf("Could not create Keyfunc for url %s: %v", ErrorText(got.err))]
          ELSE [jwks |-> got.jwks, err |-> Nil]
  ELSE LET got == keyfuncNewJSON(jwksInfo)
       IN IF got.err # Nil
          THEN [jwks |-> NoJWKS,
                err |-> Errorf("Could not create Keyfunc for json %s: %v", ErrorText(got.err))]
          ELSE [jwks |-> got.jwks, err |-> Nil]

\* ------------------------------------------------------------- tokens
Audiences == {"tornjak", "other"}
TokenRoles == {<<>>, <<"tornjak-admin-realm-role">>}

\* A decoded JWT: header kid, whether its signature verifies under the key
\* cached for that kid, and the registered claims aud, exp, nbf relative to
\* the verification time, with the realm roles.
Tokens ==
  [kid : {"kid1", "kid3", "none"}, sigOK : BOOLEAN, aud : SUBSET Audiences,
   exp : {"none", "past", "now", "future"}, nbf : {"none", "future"},
   roles : TokenRoles]

ValidTok(k) ==
  [kid |-> k, sigOK |-> TRUE, aud |-> {"tornjak"}, exp |-> "future", nbf |-> "none",
   roles |-> <<"tornjak-admin-realm-role">>]

Malformed == [kid |-> "none", sigOK |-> FALSE, aud |-> {}, exp |-> "none", nbf |-> "none",
              roles |-> <<"not a JWT">>]

\* The word "tok" of a header is the compact serialization of the token t
\* the request carries; any other word is not a JWT.
ParseUnverified(tokenString, t) == IF tokenString = <<"tok">> THEN t ELSE Malformed

ErrTokenMalformed == [kind |-> "token is malformed"]
ErrTokenUnverifiable == [kind |-> "token is unverifiable: the given key ID was not found in the JWKS"]
ErrTokenSignatureInvalid == [kind |-> "token signature is invalid"]
ErrTokenExpired == [kind |-> "token has invalid claims: token is expired"]
ErrTokenNotValidYet == [kind |-> "token has invalid claims: token is not valid yet"]
ErrTokenInvalidAudience == [kind |-> "token has invalid claims: token has invalid audience"]

\* Parser options that expect no audience.
parserOptionsNone(audience) == [expectedAud |-> ""]

\* parserOptions := jwt.WithAudience(a.audience): the only option given.
parserOptions(audience) == [expectedAud |-> audience]

\* The claims validation of jwt/v5 under these options: exp and nbf are
\* checked when present, aud is required when an audience is expected.
ValidateClaims(t, opts) ==
  IF t.exp \in {"past", "now"} THEN ErrTokenExpired
  ELSE IF t.nbf = "future" THEN ErrTokenNotValidYet
  ELSE IF opts.expectedAud # "" /\ opts.expectedAud \notin t.aud THEN ErrTokenInvalidAudience
  ELSE Nil

\* What jwt.ParseWithClaims does once the Keyfunc has returned a key.
VerifyWithKey(t, opts) ==
  IF ~t.sigOK THEN ErrTokenSignatureInvalid ELSE ValidateClaims(t, opts)

\* ------------------------------------------------------- request results
Procs == 1..NProcs

NilUser == [nil |-> TRUE, Roles |-> <<>>]
UserInfo(roles) == [nil |-> FALSE, Roles |-> roles]

\* What a request's key lookup saw and did.
NoLookup == [done |-> FALSE, kid |-> "none", present |-> FALSE, fetched |-> FALSE,
             presentAfter |-> FALSE, afterFailed |-> FALSE]

NoResult == [hdr |-> <<>>, tok |-> Malformed, stage |-> "none", stepErr |-> Nil,
             err |-> Nil, user |-> NilUser, lk |-> NoLookup]

NoReq == [hdr |-> <<>>, tok |-> Malformed]

\* The error of a failed jwt.ParseWithClaims handed back unchanged.
ParseErrorVerbatim(err) == err

\* return nil, errors.Errorf("Error parsing token: %s", err.Error())
ParseError(err) == Errorf("Error parsing token: %s", ErrorText(err))

\* The tail of AuthenticateRequest once the Keyfunc has answered: keyErr is
\* the Keyfunc's error, Nil when it returned a key.
FinishRequest(hdr, t, keyErr, lk) ==
  LET err == IF keyErr # Nil THEN keyErr
             ELSE VerifyWithKey(t, parserOptions(auth.audience))
  IN IF err # Nil
     THEN [hdr |-> hdr, tok |-> t, stage |-> IF keyErr # Nil THEN "keyfunc" ELSE "verify",
           stepErr |-> err, err |-> ParseError(err), user |-> NilUser, lk |-> lk]
     ELSE [hdr |-> hdr, tok |-> t, stage |-> "done", stepErr |-> Nil, err |-> Nil,
           user |-> UserInfo(TranslateToTornjakRoles(t.roles)), lk |-> lk]

\* ------------------------------------------------------ the key set cache
cacheVars == <<keys, sinceAttempt, gap, burstFetches, lastRefresh>>

Bump(n) == IF n < 2 THEN n + 1 ELSE n

\* Lookup(keyID): a hit, a miss that may refresh, or a miss that fails.
LookupDecision(kid) ==
  IF kid \in keys THEN "hit"
  ELSE IF auth.opts.refreshUnknownKID /\ sinceAttempt >= auth.opts.refreshRateLimit
       THEN "refresh"
  ELSE "unknown"

\* No RefreshErrorHandler set: a refresh error reaches nobody.
RefreshErrorHandlerUnset(failed) == FALSE

\* RefreshErrorHandler: called with the error of a failed refresh, it
\* prints the error to stdout and does nothing else.
RefreshErrorHandler(failed) == failed

\* The refresh algorithm: on success the fetched set replaces the cached
\* one, on failure the cached set stays.
RefreshedKeys(ok) == IF ok THEN srcKeys ELSE keys

LookupFacts(kid, decision) ==
  [done |-> TRUE, kid |-> kid, present |-> kid \in keys, fetched |-> decision = "refresh",
   presentAfter |-> kid \in keys, afterFailed |-> lastRefresh.outcome = "failed"]

\* ------------------------------------------------------------ actions
NewKeycloakAuthenticator(httpjwks, disc, audience, respOK) ==
  /\ auth.state = "unbuilt"
  /\ LET inputs == [httpjwks |-> httpjwks, discOK |-> disc.ok, audience |-> audience,
                    jwksURL |-> disc.JWKSURI]
         r == getJWKeyFunc(httpjwks, disc.JWKSURI, [ok |-> respOK, kids |-> srcKeys])
     IN IF ~disc.ok
        THEN /\ auth' = inputs @@ [state |-> "failed", opts |-> NoOptions,
                         err |-> Errorf("Could not set up OIDC Discovery client with issuer = '%s': %v",
                                        <<"discovery failed">>)]
             /\ UNCHANGED keys
        ELSE IF r.err # Nil
        THEN /\ auth' = inputs @@ [state |-> "failed", opts |-> NoOptions, err |-> r.err]
             /\ UNCHANGED keys
        ELSE /\ auth' = inputs @@ [state |-> "built", opts |-> r.jwks.opts, err |-> Nil]
             /\ keys' = r.jwks.keys
  /\ UNCHANGED <<StaticRoleMappings, inHdr, inTok, srcKeys, sinceAttempt, sinceSched, pc,
                 req, last, gap, burstMisses, burstFetches,
                 lastRefresh>>

AuthenticateRequest(p, hdr, t) ==
  /\ auth.state = "built"
  /\ pc[p] = "idle"
  /\ LET g == getToken(hdr, auth.jwksURL)
         tok == ParseUnverified(g.token, t)
         d == LookupDecision(tok.kid)
         lk == LookupFacts(tok.kid, d)
     IN IF g.err # Nil
        THEN /\ last' = [hdr |-> hdr, tok |-> Malformed, stage |-> "getToken",
                         stepErr |-> g.err, err |-> g.err, user |-> NilUser,
                         lk |-> NoLookup]
             /\ UNCHANGED <<cacheVars, pc, req, burstMisses>>
        ELSE IF tok = Malformed
        THEN /\ last' = [hdr |-> hdr, tok |-> Malformed, stage |-> "parse",
                         stepErr |-> ErrTokenMalformed,
                         err |-> ParseError(ErrTokenMalformed), user |-> NilUser,
                         lk |-> NoLookup]
             /\ UNCHANGED <<cacheVars, pc, req, burstMisses>>
        ELSE IF tok.kid = "none"
        THEN /\ last' = FinishRequest(hdr, tok, ErrTokenUnverifiable, NoLookup)
             /\ UNCHANGED <<cacheVars, pc, req, burstMisses>>
        ELSE IF d = "hit"
        THEN /\ last' = FinishRequest(hdr, tok, Nil, lk)
             /\ UNCHANGED <<cacheVars, pc, req, burstMisses>>
        ELSE IF d = "unknown"
        THEN /\ last' = FinishRequest(hdr, tok, ErrTokenUnverifiable, lk)
             /\ burstMisses' = Bump(burstMisses)
             /\ UNCHANGED <<cacheVars, pc, req>>
        ELSE /\ pc' = [pc EXCEPT ![p] = "fetching"]
             /\ req' = [req EXCEPT ![p] = [hdr |-> hdr, tok |-> tok]]
             /\ gap' = sinceAttempt
             /\ sinceAttempt' = 0
             /\ burstFetches' = Bump(burstFetches)
             /\ burstMisses' = Bump(burstMisses)
             /\ UNCHANGED <<keys, last, lastRefresh>>
  /\ UNCHANGED <<StaticRoleMappings, inHdr, inTok, auth, srcKeys, sinceSched>>

\* The refresh a lookup miss started comes back; the lookup is retried once
\* and the request completes.
RefreshDone(p, ok) ==
  /\ pc[p] = "fetching"
  /\ LET t == req[p].tok
         newKeys == RefreshedKeys(ok)
         lk == [done |-> TRUE, kid |-> t.kid, present |-> FALSE, fetched |-> TRUE,
                presentAfter |-> t.kid \in newKeys, afterFailed |-> ~ok]
     IN /\ keys' = newKeys
        /\ lastRefresh' = [outcome |-> IF ok THEN "ok" ELSE "failed", keysBefore |-> keys,
                           reported |-> RefreshErrorHandler(~ok)]
        /\ last' = FinishRequest(req[p].hdr, t,
                                 IF t.kid \in newKeys THEN Nil ELSE ErrTokenUnverifiable, lk)
  /\ pc' = [pc EXCEPT ![p] = "idle"]
  /\ req' = [req EXCEPT ![p] = NoReq]
  /\ UNCHANGED <<StaticRoleMappings, inHdr, inTok, auth, srcKeys, sinceAttempt, sinceSched,
                 gap, burstMisses, burstFetches>>

\* The hourly timer fires and the rate-limit window is over: refresh.
ScheduledRefresh(ok) ==
  /\ auth.state = "built"
  /\ auth.opts.refreshInterval # 0
  /\ sinceSched = auth.opts.refreshInterval
  /\ sinceAttempt >= auth.opts.refreshRateLimit
  /\ keys' = RefreshedKeys(ok)
  /\ lastRefresh' = [outcome |-> IF ok THEN "ok" ELSE "failed", keysBefore |-> keys,
                     reported |-> RefreshErrorHandler(~ok)]
  /\ gap' = sinceAttempt
  /\ sinceAttempt' = 0
  /\ sinceSched' = 0
  /\ burstFetches' = Bump(burstFetches)
  /\ UNCHANGED <<StaticRoleMappings, inHdr, inTok, auth, srcKeys, pc, req, last,
                 burstMisses>>

\* The hourly timer fires inside the rate-limit window: no fetch.
ScheduledRefreshSkipped ==
  /\ auth.state = "built"
  /\ auth.opts.refreshInterval # 0
  /\ sinceSched = auth.opts.refreshInterval
  /\ sinceAttempt < auth.opts.refreshRateLimit
  /\ sinceSched' = 0
  /\ UNCHANGED <<StaticRoleMappings, inHdr, inTok, auth, keys, srcKeys, sinceAttempt, pc,
                 req, last, gap, burstMisses, burstFetches,
                 lastRefresh>>

\* One minute passes.  A fetch is bounded by RefreshTimeout (10 s), so no
\* minute passes while one is in flight.
Tick ==
  /\ auth.state = "built"
  /\ \A p \in Procs : pc[p] = "idle"
  /\ auth.opts.refreshInterval # 0 => sinceSched < auth.opts.refreshInterval
  /\ sinceAttempt' = IF sinceAttempt < RefreshRateLimit THEN sinceAttempt + 1 ELSE sinceAttempt
  /\ sinceSched' = IF auth.opts.refreshInterval # 0 THEN sinceSched + 1 ELSE sinceSched
  /\ burstMisses' = 0
  /\ burstFetches' = 0
  /\ UNCHANGED <<StaticRoleMappings, inHdr, inTok, auth, keys, srcKeys, pc, req, last, gap,
                 lastRefresh>>

\* The identity provider rotates its signing keys.
Rotate ==
  /\ srcKeys = InitialSourceKeys
  /\ srcKeys' = RotatedSourceKeys
  /\ UNCHANGED <<StaticRoleMappings, inHdr, inTok, auth, keys, sinceAttempt, sinceSched, pc,
                 req, last, gap, burstMisses, burstFetches,
                 lastRefresh>>

\* ------------------------------------------------------ specifications
CanonicalHdr == <<"Bearer", SP, "tok">>
Headers == SeqsUpTo(HdrAtoms, MaxHdrLen)

InitCommon ==
  /\ StaticRoleMappings = StaticRoleMappingsTable
  /\ auth = [httpjwks |-> FALSE, discOK |-> FALSE, audience |-> "", jwksURL |-> JWKSURL,
             state |-> "unbuilt", opts |-> NoOptions, err |-> Nil]
  /\ keys = {}
  /\ srcKeys = InitialSourceKeys
  /\ sinceAttempt = RefreshRateLimit
  /\ sinceSched = 0
  /\ pc = [p \in Procs |-> "idle"]
  /\ req = [p \in Procs |-> NoReq]
  /\ last = NoResult
  /\ gap = RefreshRateLimit
  /\ burstMisses = 0
  /\ burstFetches = 0
  /\ lastRefresh = [outcome |-> "none", keysBefore |-> {}, reported |-> FALSE]

\* What OIDC discovery may answer: a failure, a JWKS URL, or metadata whose
\* jwks_uri string is itself a JSON key set.
Discoveries ==
  {[ok |-> FALSE, JWKSURI |-> JWKSURL], [ok |-> TRUE, JWKSURI |-> JWKSURL],
   [ok |-> TRUE, JWKSURI |-> StaticJSONKeySet]}

Construct(auds) ==
  \E httpjwks \in BOOLEAN, disc \in Discoveries, audience \in auds, respOK \in BOOLEAN :
    NewKeycloakAuthenticator(httpjwks, disc, audience, respOK)

\* Requests with every header shape.
InitHdr == InitCommon /\ inHdr \in Headers /\ inTok = ValidTok("kid1")
NextHdr ==
  \/ Construct({"tornjak"})
  \/ \E hdr \in {inHdr, CanonicalHdr}, t \in {ValidTok("kid1"), ValidTok("kid3")} :
       AuthenticateRequest(1, hdr, t)
  \/ \E ok \in BOOLEAN : RefreshDone(1, ok)
SpecHdr == InitHdr /\ [][NextHdr]_vars

\* Requests with every token, under every configured audience.
SampleHeaders == {CanonicalHdr, <<"Bearer">>, <<"Bearer", SP, "Basic">>}
InitTok == InitCommon /\ inHdr \in SampleHeaders /\ inTok \in Tokens
NextTok ==
  \/ Construct({"", "tornjak", "other"})
  \/ AuthenticateRequest(1, inHdr, inTok)
  \/ \E ok \in BOOLEAN : RefreshDone(1, ok)
SpecTok == InitTok /\ [][NextTok]_vars

\* Requests with every realm-role list.
InitRoles ==
  /\ InitCommon
  /\ inHdr = CanonicalHdr
  /\ \E roles \in SeqsUpTo(ProviderRoles, MaxRoles) :
       inTok = [ValidTok("kid1") EXCEPT !.roles = roles]
NextRoles ==
  \/ Construct({"tornjak"})
  \/ \E t \in {inTok, ValidTok("kid3")} : AuthenticateRequest(1, inHdr, t)
  \/ \E ok \in BOOLEAN : RefreshDone(1, ok)
SpecRoles == InitRoles /\ [][NextRoles]_vars

\* Concurrent callers, the clock and the refresh timer.
Init == InitCommon /\ inHdr = CanonicalHdr /\ inTok = ValidTok("kid3")
Next ==
  \/ Construct({"tornjak"})
  \/ \E p \in Procs, k \in KIDs : AuthenticateRequest(p, inHdr, ValidTok(k))
  \/ \E p \in Procs, ok \in BOOLEAN : RefreshDone(p, ok)
  \/ \E ok \in BOOLEAN : ScheduledRefresh(ok)
  \/ ScheduledRefreshSkipped
  \/ Tick
  \/ Rotate
Spec == Init /\ [][Next]_vars

\* =============================================================== claims

\* ---- C7 ----------------------------------------------------------------
\* The roles a provider list translates to, read off the table directly:
\* keep the entries that are keys of the table, in order, and map each.
MappedRoles(roles) ==
  LET kept == SelectSeq(roles, LAMBDA r : r \in DOMAIN StaticRoleMappingsTable)
  IN [i \in 1..Len(kept) |-> StaticRoleMappingsTable[kept[i]]]

\* C7: TranslateToTornjakRoles returns, for every provider role list, the
\* mapped roles of the entries that are keys of StaticRoleMappings, in input
\* order and with duplicates kept; the table is never modified; and the
\* three examples of the specification hold.
C7_TranslateIsOrderedFilterMap ==
  /\ StaticRoleMappings = StaticRoleMappingsTable
  /\ TranslateToTornjakRoles(inTok.roles) = MappedRoles(inTok.roles)
  /\ last.stage = "done" => last.user.Roles = MappedRoles(last.tok.roles)
  /\ TranslateToTornjakRoles(<<>>) = <<>>
  /\ TranslateToTornjakRoles(<<"tornjak-viewer-realm-role">>) = <<"viewer">>
  /\ TranslateToTornjakRoles(<<"tornjak-admin-realm-role", "unknown-role">>) = <<"admin">>

\* A request carried a list with a repeated and an unknown role and got the
\* repeated role twice.
C7_Witness ==
  /\ last.stage = "done"
  /\ last.tok.roles = <<"tornjak-admin-realm-role", "unknown-role", "tornjak-admin-realm-role">>
  /\ last.user.Roles = <<"admin", "admin">>

\* ---- C4 ----------------------------------------------------------------
\* The header has exactly two whitespace-separated words, the first of
\* them the single word Bearer (stated on positions, not through Fields).
WordStarts(h) == {i \in 1..Len(h) : h[i] # SP /\ (i = 1 \/ h[i - 1] = SP)}
BearerForm(h) ==
  /\ Cardinality(WordStarts(h)) = 2
  /\ LET first == CHOOSE i \in WordStarts(h) : \A j \in WordStarts(h) : i <= j
     IN h[first] = "Bearer" /\ first < Len(h) /\ h[first + 1] = SP

\* C4: a request whose Authorization header is empty or not of the form
\* "Bearer <token>" returns an error and no UserInfo from getToken, before
\* any token parsing or key lookup, and leaves the key cache as it was.
C4_MalformedHeaderRejectedEarly ==
  [][(last' # last /\ ~BearerForm(last'.hdr))
       => /\ last'.err # Nil
          /\ last'.user = NilUser
          /\ last'.stage = "getToken"
          /\ ~last'.lk.done
          /\ UNCHANGED <<cacheVars, pc, req, burstMisses>>]_vars

\* "Bearer a b" was rejected by a cache that had refreshed before.
C4_Witness ==
  /\ last.hdr = <<"Bearer", SP, "tok", SP, "tok">>
  /\ last.stage = "getToken"
  /\ last.err # Nil
  /\ sinceAttempt = 0

\* ---- C9 ----------------------------------------------------------------
\* C9 as stated: the error returned is the failing step's error itself.
C9_ErrorReturnedVerbatim ==
  /\ last.stage \notin {"none", "done"} => last.err = last.stepErr
  /\ ~last.user.nil => last.err = Nil

\* C9 as amended: a header error is returned as getToken produced it; an
\* error of jwt.ParseWithClaims is replaced by a new error whose text is
\* "Error parsing token: " followed by the original text; UserInfo is
\* returned exactly when there is no error.
C9_ParseErrorsAreReplaced ==
  /\ last.stage = "getToken" => last.err = last.stepErr /\ last.err # Nil
  /\ last.stage \in {"parse", "keyfunc", "verify"} =>
       /\ last.stepErr # Nil
       /\ last.err = Errorf("Error parsing token: %s", ErrorText(last.stepErr))
       /\ last.err # last.stepErr
  /\ ~last.user.nil <=> last.stage = "done"
  /\ last.stage = "done" => last.err = Nil

\* An expired token came back with the replaced error.
C9_Witness ==
  /\ last.stage = "verify"
  /\ last.stepErr = ErrTokenExpired
  /\ last.err = Errorf("Error parsing token: %s", ErrorText(ErrTokenExpired))
  /\ last.user.nil

C6_SucceedsOnlyWithFutureExp ==
  last.stage = "done" => last.tok.exp = "future"

\* ---- C8 ----------------------------------------------------------------
\* C8: in static-JSON mode, with discovery answering, the authenticator is
\* constructed with the configured static key set {kid1} as its key set,
\* and the kid1-signed admin token yields UserInfo with roles [admin].
C8_StaticModeEndToEnd ==
  (auth.state # "unbuilt" /\ ~auth.httpjwks /\ auth.discOK /\ auth.audience = "tornjak")
    => /\ auth.state = "built"
       /\ keys = StaticJSONKeySet.kids
       /\ (last.stage # "none" /\ last.hdr = CanonicalHdr /\ last.tok = ValidTok("kid1"))
            => last.user = UserInfo(<<"admin">>)

\* ---- C1 ----------------------------------------------------------------
\* C1 as stated: every request whose key ID is not in the cached set fails,
\* and refresh attempts are at least the rate-limit interval apart.
C1_EveryMissFails ==
  /\ (last.lk.done /\ ~last.lk.present) => last.err # Nil
  /\ gap >= RefreshRateLimit
  /\ burstFetches <= 1

\* C1 as amended: a request whose key ID is not in the cached set fails
\* unless the refresh its lookup triggers brings that key ID into the set;
\* and refresh attempts are at least the rate-limit interval apart, however
\* many such requests arrive.
C1_MissFailsUnlessRefreshed ==
  /\ (last.lk.done /\ ~last.lk.present) =>
        \/ last.err # Nil /\ last.user.nil
        \/ last.lk.fetched /\ last.lk.presentAfter
  /\ (last.lk.done /\ ~last.lk.present /\ ~last.lk.presentAfter) =>
        last.stepErr = ErrTokenUnverifiable
  /\ gap >= RefreshRateLimit
  /\ burstFetches <= 1

\* Two misses in one minute, one fetch, and the request failed.
C1_Witness ==
  /\ burstMisses = 2
  /\ burstFetches = 1
  /\ last.lk.done /\ ~last.lk.present /\ ~last.lk.fetched
  /\ last.stepErr = ErrTokenUnverifiable

\* ---- C3 ----------------------------------------------------------------
\* C3: a failed refresh leaves the cached key set as it was and is reported
\* to the error sink; the request that waited for it gets the unknown-key
\* error, and a request whose key ID is cached succeeds after it.
C3_FailedRefreshKeepsKeys ==
  /\ lastRefresh.outcome = "failed" =>
       keys = lastRefresh.keysBefore /\ lastRefresh.reported
  /\ lastRefresh.outcome = "ok" => ~lastRefresh.reported
  /\ (last.lk.done /\ last.lk.fetched /\ ~last.lk.presentAfter) =>
       last.stepErr = ErrTokenUnverifiable
  /\ (last.lk.done /\ last.lk.present) => last.stage = "done"

\* After a failed refresh a request with a cached key ID succeeded.
C3_Witness ==
  /\ lastRefresh.outcome = "failed"
  /\ last.lk.done /\ last.lk.present /\ last.lk.afterFailed
  /\ last.stage = "done"
  /\ keys # {}

====
